---------------------------- MODULE Spec2Model ----------------------------
(***************************************************************************)
(* Model of the Drawing class of src/main.js: a chainable path cursor over *)
(* a canvas 2D context.  The state is the cursor's private fields; every   *)
(* public method is one action.  The canvas context is an external         *)
(* collaborator: what the cursor does to it (method calls and property     *)
(* writes) is recorded, in order, in `emitted` for the most recent call.   *)
(*                                                                         *)
(* Conventions                                                             *)
(*   - an optional value (null / undefined) is a sequence of length 0 or 1 *)
(*   - strings: "" is the absent (falsy) argument, "unset" an absent key   *)
(*     (Object.assign writes nothing for a key the style does not have)    *)
(*   - angles are counted in quarter turns, so Tau (2*pi) is 4             *)
(*   - a Surface command is [op, n, s]: name, numeric and string arguments *)
(***************************************************************************)
EXTENDS Integers, Sequences, FiniteSets, TLC

VARIABLES
    pos,              \* this.pos: current position {x, y}
    posDrawn,         \* this.posDrawn: pos already used for drawing
    posStart,         \* this.posStart: start of the open subpath, or None
    pendingText,      \* this.pendingText: queued [str, pos, style] entries
    textStyle,        \* this.textStyle: {font, textAlign, textBaseline}
    pendingPathClose, \* this.pendingPathClose: a paint ran, path not yet reset
    drawCurve,        \* this.drawCurve: deferred curve closure, or None
    call,             \* the most recent public call: [op, args]
    emitted,          \* what that call did to the canvas context, in order
    prevOp,           \* history: the call before `call`: its name if
                      \* Remembered, "point" if it was xy(x, y), else "-"
    trace             \* history: calls and output of a fresh xy.. close run

vars == <<pos, posDrawn, posStart, pendingText, textStyle, pendingPathClose,
          drawCurve, call, emitted, prevOp, trace>>

---------------------------------------------------------------------------
(* Bounds of the model and input domains                                   *)

MaxText == 2
MaxGen == 2
MaxTrace == 4

Tau == 4

None == <<>>
Some(v) == <<v>>

Coord == {0, 1}
OptCoord == {None} \cup {Some(v) : v \in Coord}
Point(x, y) == [x |-> x, y |-> y]
Points == {Point(x, y) : x \in Coord, y \in Coord}

\* control points and generator points are drawn from the two corners
Corners == {Point(0, 0), Point(1, 1)}
Deltas == {-1, 0, 1}
Radii == {1}
Sizes == {2}
Angles == {1, Tau}
Strs == {"A", "B"}
Fonts == {"serif"}
Aligns == {"", "center"}
Baselines == {""}
Colors == {"", "red"}
FillRules == {"", "evenodd"}
Images == {"img"}

RECURSIVE SeqsUpTo(_, _)
SeqsUpTo(S, n) ==
    IF n = 0 THEN {<<>>}
    ELSE LET shorter == SeqsUpTo(S, n - 1)
         IN  shorter \cup {Append(q, e) : q \in {r \in shorter : Len(r) = n - 1}, e \in S}

Generators == SeqsUpTo(Corners, MaxGen)

---------------------------------------------------------------------------
(* The canvas context: commands and property writes                        *)

Cmd(op, n, s) == [op |-> op, n |-> n, s |-> s]
MoveTo(x, y) == Cmd("moveTo", <<x, y>>, <<>>)
LineTo(x, y) == Cmd("lineTo", <<x, y>>, <<>>)
BeginPath == Cmd("beginPath", <<>>, <<>>)
ClosePath == Cmd("closePath", <<>>, <<>>)
BoolStr(b) == IF b THEN "true" ELSE "false"
\* a property write: this._.<name> = value
SetNum(name, v) == Cmd("set", <<v>>, <<name>>)
SetStr(name, v) == Cmd("set", <<>>, <<name, v>>)

\* the cursor's fields bundled as one value, with the output of the call so far
This ==
    [pos |-> pos, posDrawn |-> posDrawn, posStart |-> posStart,
     pendingText |-> pendingText, textStyle |-> textStyle,
     pendingPathClose |-> pendingPathClose, drawCurve |-> drawCurve,
     out |-> <<>>]

Emit(d, c) == [d EXCEPT !.out = Append(@, c)]


---------------------------------------------------------------------------
(* Internal path management                                                *)

\* variant: the pending point is always drawn as a line
advancePathAlwaysLine(d, ox, oy) ==
    LET flushed == IF ~d.posDrawn THEN Emit(d, LineTo(d.pos.x, d.pos.y)) ELSE d
    IN  IF ox # None /\ oy # None
        THEN [flushed EXCEPT !.pos = Point(ox[1], oy[1]), !.posDrawn = FALSE]
        ELSE [flushed EXCEPT !.posDrawn = TRUE]

\* variant: every flushed point becomes the subpath start
advancePathMovesStart(d, ox, oy) ==
    LET flushed ==
            IF ~d.posDrawn
            THEN IF d.posStart = None
                 THEN Emit([d EXCEPT !.posStart = Some(d.pos)],
                           MoveTo(d.pos.x, d.pos.y))
                 ELSE Emit([d EXCEPT !.posStart = Some(d.pos)],
                           LineTo(d.pos.x, d.pos.y))
            ELSE d
    IN  IF ox # None /\ oy # None
        THEN [flushed EXCEPT !.pos = Point(ox[1], oy[1]), !.posDrawn = FALSE]
        ELSE [flushed EXCEPT !.posDrawn = TRUE]

\* _advancePath(x, y): emit the pending position as a move (opening the
\* subpath) or a line, then record the new point, or only mark pos drawn
advancePath(d, ox, oy) ==
    LET flushed ==
            IF ~d.posDrawn
            THEN IF d.posStart = None
                 THEN Emit([d EXCEPT !.posStart = Some(d.pos)],
                           MoveTo(d.pos.x, d.pos.y))
                 ELSE Emit(d, LineTo(d.pos.x, d.pos.y))
            ELSE d
    IN  IF ox # None /\ oy # None
        THEN [flushed EXCEPT !.pos = Point(ox[1], oy[1]), !.posDrawn = FALSE]
        ELSE [flushed EXCEPT !.posDrawn = TRUE]

\* variant: the reset forgets to clear posStart
checkPathCloseKeepsStart(d) ==
    IF d.pendingPathClose
    THEN Emit([d EXCEPT !.pendingPathClose = FALSE, !.pendingText = <<>>],
              BeginPath)
    ELSE d

\* _checkPathClose(): after stroke() or fill(), start a new path
checkPathClose(d) ==
    IF d.pendingPathClose
    THEN LET cleared == [d EXCEPT !.pendingPathClose = FALSE,
                                  !.pendingText = <<>>]
         IN  [Emit(cleared, BeginPath) EXCEPT !.posStart = None]
    ELSE d

\* the closures stored in drawCurve, invoked with the end point (x, y)
CurveCmd(c, x, y) ==
    CASE c.kind = "arcTo"  -> Cmd("arcTo", <<c.n[1], c.n[2], x, y, c.n[3]>>, <<>>)
      [] c.kind = "bezier" -> Cmd("bezierCurveTo",
                                  <<c.n[1], c.n[2], c.n[3], c.n[4], x, y>>, <<>>)
      [] c.kind = "quad"   -> Cmd("quadraticCurveTo", <<c.n[1], c.n[2], x, y>>, <<>>)

---------------------------------------------------------------------------
(* Points, paths and shapes                                                *)

\* _xyf(func): advance the path over every pair the generator yields
RECURSIVE xyf(_, _)
xyf(d, gen) ==
    IF gen = <<>> THEN d
    ELSE xyf(advancePath(d, Some(Head(gen).x), Some(Head(gen).y)), Tail(gen))

\* xy(func): the branch taken when the first argument is a function
xyFn(d, gen) == xyf(checkPathClose(d), gen)

\* variant: the end point of a drawn curve counts as drawn (the line the
\* source keeps commented out: this.posDrawn = true)
xyCommitsCurveEnd(d, ox, oy) ==
    LET moved == advancePath(checkPathClose(d), ox, oy)
    IN  IF moved.drawCurve # None
        THEN [Emit(moved, CurveCmd(moved.drawCurve[1], moved.pos.x, moved.pos.y))
                EXCEPT !.drawCurve = None, !.posDrawn = TRUE]
        ELSE moved

\* variant: the curve is drawn but stays pending
xyKeepsCurve(d, ox, oy) ==
    LET moved == advancePath(checkPathClose(d), ox, oy)
    IN  IF moved.drawCurve # None
        THEN Emit(moved, CurveCmd(moved.drawCurve[1], moved.pos.x, moved.pos.y))
        ELSE moved

\* variant: the new point is drawn by the call that records it
xyDrawsAtOnce(d, ox, oy) ==
    LET moved == advancePath(advancePath(checkPathClose(d), ox, oy), None, None)
    IN  IF moved.drawCurve # None
        THEN [Emit(moved, CurveCmd(moved.drawCurve[1], moved.pos.x, moved.pos.y))
                EXCEPT !.drawCurve = None]
        ELSE moved

\* xy(x, y) with numbers (either may be missing)
xy(d, ox, oy) ==
    LET moved == advancePath(checkPathClose(d), ox, oy)
    IN  IF moved.drawCurve # None
        THEN [Emit(moved, CurveCmd(moved.drawCurve[1], moved.pos.x, moved.pos.y))
                EXCEPT !.drawCurve = None]
        ELSE moved

x(d, vx) == xy(d, Some(vx), Some(d.pos.y))
y(d, vy) == xy(d, Some(d.pos.x), Some(vy))
dxy(d, vx, vy) == xy(d, Some(d.pos.x + vx), Some(d.pos.y + vy))
dx(d, vx) == dxy(d, vx, 0)
dy(d, vy) == dxy(d, 0, vy)

\* variant: no line back when the position already is the subpath start
closeSkipsLineAtStart(d) ==
    LET flushed == advancePath(checkPathClose(d), None, None)
        back == IF flushed.posStart # None
                THEN IF flushed.posStart[1] = flushed.pos
                     THEN [flushed EXCEPT !.posStart = None]
                     ELSE [advancePath(xy(flushed, Some(flushed.posStart[1].x),
                                                   Some(flushed.posStart[1].y)),
                                       None, None)
                             EXCEPT !.posStart = None]
                ELSE flushed
    IN  Emit(back, ClosePath)

\* variant: the move back to the start bypasses the deferred curve
closeBypassesCurve(d) ==
    LET flushed == advancePath(checkPathClose(d), None, None)
        back == IF flushed.posStart # None
                THEN [advancePath(advancePath(flushed,
                                              Some(flushed.posStart[1].x),
                                              Some(flushed.posStart[1].y)),
                                  None, None)
                        EXCEPT !.posStart = None]
                ELSE flushed
    IN  Emit(back, ClosePath)

\* variant: the subpath start survives the close
closeKeepsStart(d) ==
    LET flushed == advancePath(checkPathClose(d), None, None)
        back == IF flushed.posStart # None
                THEN advancePath(xy(flushed, Some(flushed.posStart[1].x),
                                             Some(flushed.posStart[1].y)),
                                 None, None)
                ELSE flushed
    IN  Emit(back, ClosePath)

close(d) ==
    LET flushed == advancePath(checkPathClose(d), None, None)
        back == IF flushed.posStart # None
                THEN [advancePath(xy(flushed, Some(flushed.posStart[1].x),
                                              Some(flushed.posStart[1].y)),
                                  None, None)
                        EXCEPT !.posStart = None]
                ELSE flushed
    IN  Emit(back, ClosePath)

\* variant: the rectangle first flushes the pending point
rectFlushesPoint(d, width, height, centered) ==
    LET r == advancePath(checkPathClose(d), None, None)
    IN  [Emit(r, Cmd("rect",
                     <<IF centered THEN r.pos.x - width \div 2 ELSE r.pos.x,
                       IF centered THEN r.pos.y - height \div 2 ELSE r.pos.y,
                       width, height>>, <<>>))
           EXCEPT !.posDrawn = TRUE]

rect(d, width, height, centered) ==
    LET r == checkPathClose(d)
    IN  [Emit(r, Cmd("rect",
                     <<IF centered THEN r.pos.x - width \div 2 ELSE r.pos.x,
                       IF centered THEN r.pos.y - height \div 2 ELSE r.pos.y,
                       width, height>>, <<>>))
           EXCEPT !.posDrawn = TRUE]

square(d, size, centered) == rect(d, size, size, centered)

arc(d, radius, startAngle, endAngle, anticlockwise) ==
    LET r == checkPathClose(d)
    IN  [Emit(r, Cmd("arc", <<r.pos.x, r.pos.y, radius, startAngle, endAngle>>,
                     <<BoolStr(anticlockwise)>>))
           EXCEPT !.posDrawn = TRUE]

\* variant: the subpath stays open after the circle
circleKeepsStart(d, radius) ==
    arc(Emit(d, MoveTo(d.pos.x + radius, d.pos.y)), radius, 0, Tau, FALSE)

circle(d, radius) ==
    [arc(Emit(d, MoveTo(d.pos.x + radius, d.pos.y)), radius, 0, Tau, FALSE)
       EXCEPT !.posStart = None]

\* Math.cos / Math.sin at whole quarter turns
Cos(a) == CASE a % 4 = 0 -> 1 [] a % 4 = 1 -> 0 [] a % 4 = 2 -> -1 [] OTHER -> 0
Sin(a) == CASE a % 4 = 0 -> 0 [] a % 4 = 1 -> 1 [] a % 4 = 2 -> 0 [] OTHER -> -1

\* ellipse(radiusX, radiusY, rotation = 0, startAngle = 0, endAngle = Tau, ..)
ellipse(d, radiusX, radiusY, oRotation, oStart, oEnd, anticlockwise) ==
    LET rotation == IF oRotation = None THEN 0 ELSE oRotation[1]
        startAngle == IF oStart = None THEN 0 ELSE oStart[1]
        endAngle == IF oEnd = None THEN Tau ELSE oEnd[1]
        r == checkPathClose(d)
        m == IF startAngle = 0 /\ endAngle = Tau
             THEN Emit(r, MoveTo(r.pos.x + radiusX * Cos(rotation),
                                 r.pos.y + radiusX * Sin(rotation)))
             ELSE r
    IN  [Emit(m, Cmd("ellipse", <<r.pos.x, r.pos.y, radiusX, radiusY, rotation,
                                  startAngle, endAngle>>,
                     <<BoolStr(anticlockwise)>>))
           EXCEPT !.posDrawn = TRUE]

arcTo(d, cx, cy, radius) ==
    [d EXCEPT !.drawCurve = Some([kind |-> "arcTo", n |-> <<cx, cy, radius>>])]

\* curve(x1, y1, x2, y2): cubic when both x2 and y2 are given, else quadratic
curve(d, x1, y1, ox2, oy2) ==
    [d EXCEPT !.drawCurve =
        IF ox2 # None /\ oy2 # None
        THEN Some([kind |-> "bezier", n |-> <<x1, y1, ox2[1], oy2[1]>>])
        ELSE Some([kind |-> "quad", n |-> <<x1, y1>>])]

---------------------------------------------------------------------------
(* Path manipulation                                                       *)

\* variant: the subpath start survives the split
splitKeepsStart(d) == advancePath(checkPathClose(d), None, None)

\* variant: the split also drops a deferred curve
splitClearsCurve(d) ==
    [advancePath(checkPathClose(d), None, None)
       EXCEPT !.posStart = None, !.drawCurve = None]

split(d) == [advancePath(checkPathClose(d), None, None) EXCEPT !.posStart = None]

\* variant: the position is flushed but not recorded again
joinOnlyFlushes(d) == advancePath(checkPathClose(d), None, None)

join(d) ==
    LET flushed == advancePath(checkPathClose(d), None, None)
    IN  xy(flushed, Some(flushed.pos.x), Some(flushed.pos.y))

---------------------------------------------------------------------------
(* Drawing, style and text                                                 *)

\* variant: the queue holds the live style and position, not copies
RECURSIVE drawTextLive(_, _, _)
drawTextLive(d, entries, op) ==
    IF entries = <<>> THEN d
    ELSE LET e == Head(entries)
             styled == Emit(d, Cmd("assign", <<>>,
                                   <<d.textStyle.font, d.textStyle.textAlign,
                                     d.textStyle.textBaseline>>))
         IN  drawTextLive(Emit(styled, Cmd(op, <<d.pos.x, d.pos.y>>, <<e.str>>)),
                          Tail(entries), op)

\* pendingText.forEach: Object.assign(this._, style), then draw the string
RECURSIVE drawText(_, _, _)
drawText(d, entries, op) ==
    IF entries = <<>> THEN d
    ELSE LET e == Head(entries)
             styled == Emit(d, Cmd("assign", <<>>,
                                   <<e.style.font, e.style.textAlign,
                                     e.style.textBaseline>>))
         IN  drawText(Emit(styled, Cmd(op, <<e.pos.x, e.pos.y>>, <<e.str>>)),
                      Tail(entries), op)

\* variant: the paint does not flush the pending point
strokeSkipsFlush(d, size, color) ==
    LET styled ==
            IF size.t = "number"
            THEN LET w == Emit(d, SetNum("lineWidth", size.n))
                 IN  IF color # "" THEN Emit(w, SetStr("strokeStyle", color)) ELSE w
            ELSE IF size.t = "string" /\ size.s # ""
                 THEN Emit(d, SetStr("strokeStyle", size.s))
                 ELSE d
        texts == drawText(styled, styled.pendingText, "strokeText")
    IN  [Emit(texts, Cmd("stroke", <<>>, <<>>)) EXCEPT !.pendingPathClose = TRUE]

\* variant: the paint drains the queue it has rendered
strokeDrainsQueue(d, size, color) ==
    LET styled ==
            IF size.t = "number"
            THEN LET w == Emit(d, SetNum("lineWidth", size.n))
                 IN  IF color # "" THEN Emit(w, SetStr("strokeStyle", color)) ELSE w
            ELSE IF size.t = "string" /\ size.s # ""
                 THEN Emit(d, SetStr("strokeStyle", size.s))
                 ELSE d
        flushed == advancePath(styled, None, None)
        texts == drawText(flushed, flushed.pendingText, "strokeText")
    IN  [Emit(texts, Cmd("stroke", <<>>, <<>>))
           EXCEPT !.pendingPathClose = TRUE, !.pendingText = <<>>]

\* stroke(size, color): size is a number (line width), a colour, or missing
stroke(d, size, color) ==
    LET styled ==
            IF size.t = "number"
            THEN LET w == Emit(d, SetNum("lineWidth", size.n))
                 IN  IF color # "" THEN Emit(w, SetStr("strokeStyle", color)) ELSE w
            ELSE IF size.t = "string" /\ size.s # ""
                 THEN Emit(d, SetStr("strokeStyle", size.s))
                 ELSE d
        flushed == advancePath(styled, None, None)
        texts == drawText(flushed, flushed.pendingText, "strokeText")
    IN  [Emit(texts, Cmd("stroke", <<>>, <<>>)) EXCEPT !.pendingPathClose = TRUE]

\* variant: the queued text is drawn before the pending point is flushed
fillDrawsTextFirst(d, color, fillrule) ==
    LET styled == IF color # "" THEN Emit(d, SetStr("fillStyle", color)) ELSE d
        texts == drawText(styled, styled.pendingText, "fillText")
        flushed == advancePath(texts, None, None)
    IN  [Emit(flushed, Cmd("fill", <<>>, <<fillrule>>))
           EXCEPT !.pendingPathClose = TRUE]

\* fill(color, fillrule)
fill(d, color, fillrule) ==
    LET styled == IF color # "" THEN Emit(d, SetStr("fillStyle", color)) ELSE d
        flushed == advancePath(styled, None, None)
        texts == drawText(flushed, flushed.pendingText, "fillText")
    IN  [Emit(texts, Cmd("fill", <<>>, <<fillrule>>))
           EXCEPT !.pendingPathClose = TRUE]

\* the canvas element the context belongs to (defaults of clear())
Canvas == [width |-> 4, height |-> 4]

\* variant: the canvas is cleared without the lazy reset
clearSkipsReset(d, oWidth, oHeight, oX, oY) ==
    LET width == IF oWidth = None THEN Canvas.width ELSE oWidth[1]
        height == IF oHeight = None THEN Canvas.height ELSE oHeight[1]
        cx == IF oX = None THEN 0 ELSE oX[1]
        cy == IF oY = None THEN 0 ELSE oY[1]
    IN  Emit(d, Cmd("clearRect", <<cx, cy, width, height>>, <<>>))

\* clear(width = canvas.width, height = canvas.height, x = 0, y = 0)
clear(d, oWidth, oHeight, oX, oY) ==
    LET width == IF oWidth = None THEN Canvas.width ELSE oWidth[1]
        height == IF oHeight = None THEN Canvas.height ELSE oHeight[1]
        cx == IF oX = None THEN 0 ELSE oX[1]
        cy == IF oY = None THEN 0 ELSE oY[1]
    IN  Emit(checkPathClose(d), Cmd("clearRect", <<cx, cy, width, height>>, <<>>))

\* image(src, width, height): the size is passed on when both are non-zero
image(d, src, oWidth, oHeight) ==
    LET r == checkPathClose(d)
        sized == oWidth # None /\ oHeight # None
                 /\ oWidth[1] # 0 /\ oHeight[1] # 0
    IN  [Emit(r, IF sized
                 THEN Cmd("drawImage", <<r.pos.x, r.pos.y, oWidth[1], oHeight[1]>>,
                          <<src>>)
                 ELSE Cmd("drawImage", <<r.pos.x, r.pos.y>>, <<src>>))
           EXCEPT !.posDrawn = TRUE]

\* text(str, alignment, baseline): queue the string with copies of pos and style
text(d, str, alignment, baseline) ==
    LET r == checkPathClose(d)
        style == [r.textStyle EXCEPT
                    !.textAlign = IF alignment # "" THEN alignment ELSE "start",
                    !.textBaseline = IF baseline # "" THEN baseline ELSE "alphabetic"]
    IN  [r EXCEPT !.textStyle = style,
                  !.pendingText = Append(@, [str |-> str, pos |-> r.pos,
                                             style |-> style]),
                  !.posDrawn = TRUE]

font(d, f) == [d EXCEPT !.textStyle.font = f]

---------------------------------------------------------------------------
(* The state machine: one action per public method                         *)

NoTrace == [on |-> FALSE, calls |-> <<>>, out |-> <<>>]

\* constructor
Init ==
    /\ pos = Point(0, 0)
    /\ posDrawn = TRUE
    /\ posStart = None
    /\ pendingText = <<>>
    /\ textStyle = [font |-> "unset", textAlign |-> "unset", textBaseline |-> "unset"]
    /\ pendingPathClose = FALSE
    /\ drawCurve = None
    /\ call = [op |-> "new", args |-> <<>>]
    /\ emitted = <<>>
    /\ prevOp = "-"
    /\ trace = [on |-> TRUE, calls |-> <<>>, out |-> <<>>]

\* the calls prevOp remembers
Remembered == {"split", "join", "stroke", "fill", "circle", "close"}

\* a call xy(x, y) with both coordinates given
IsXYPoint(c) == c.op = "xy" /\ c.args[1] # None /\ c.args[2] # None

\* the trace follows a new cursor through xy(x, y) calls up to one close()
Traced(c) ==
    /\ trace.on
    /\ Len(trace.calls) < MaxTrace
    /\ trace.calls # <<>> => trace.calls[Len(trace.calls)].op # "close"
    /\ IsXYPoint(c) \/ c.op = "close"

\* the call c ran and left the cursor as d, with d.out sent to the context
Do(c, d) ==
    /\ pos' = d.pos
    /\ posDrawn' = d.posDrawn
    /\ posStart' = d.posStart
    /\ pendingText' = d.pendingText
    /\ textStyle' = d.textStyle
    /\ pendingPathClose' = d.pendingPathClose
    /\ drawCurve' = d.drawCurve
    /\ call' = c
    /\ emitted' = d.out
    /\ prevOp' = IF call.op \in Remembered THEN call.op
                 ELSE IF IsXYPoint(call) THEN "point" ELSE "-"
    /\ trace' = IF Traced(c)
                THEN [on |-> TRUE, calls |-> Append(trace.calls, c),
                      out |-> trace.out \o d.out]
                ELSE NoTrace

Op(name, args) == [op |-> name, args |-> args]
InRange(v) == v \in Coord

XY == \E ox \in OptCoord, oy \in OptCoord :
        Do(Op("xy", <<ox, oy>>), xy(This, ox, oy))
X == \E v \in Coord : Do(Op("x", <<v>>), x(This, v))
Y == \E v \in Coord : Do(Op("y", <<v>>), y(This, v))
DXY == \E vx \in Deltas, vy \in Deltas :
        /\ InRange(pos.x + vx) /\ InRange(pos.y + vy)
        /\ Do(Op("dxy", <<vx, vy>>), dxy(This, vx, vy))
DX == \E v \in Deltas :
        /\ InRange(pos.x + v)
        /\ Do(Op("dx", <<v>>), dx(This, v))
DY == \E v \in Deltas :
        /\ InRange(pos.y + v)
        /\ Do(Op("dy", <<v>>), dy(This, v))
XYFn == \E gen \in Generators : Do(Op("xyFn", <<gen>>), xyFn(This, gen))
Close == Do(Op("close", <<>>), close(This))
Rect == \E w \in Sizes, h \in Sizes, c \in BOOLEAN :
        Do(Op("rect", <<w, h, c>>), rect(This, w, h, c))
Square == \E s \in Sizes, c \in {TRUE} :
        Do(Op("square", <<s, c>>), square(This, s, c))
Arc == \E r \in Radii, a \in Angles, acw \in {FALSE} :
        Do(Op("arc", <<r, 0, a, acw>>), arc(This, r, 0, a, acw))
Circle == \E r \in Radii : Do(Op("circle", <<r>>), circle(This, r))
Ellipse == \E r \in Radii, rot \in {Some(1)}, st \in {None, Some(1)} :
        Do(Op("ellipse", <<r, r, rot, st>>),
           ellipse(This, r, r, rot, st, None, FALSE))
ArcTo == \E c \in {Point(1, 0)}, r \in Radii :
        Do(Op("arcTo", <<c, r>>), arcTo(This, c.x, c.y, r))
Curve == \E c \in Corners, o \in {<<None, None>>, <<Some(0), Some(1)>>} :
        /\ o # <<None, None>> => c = Point(1, 1)
        /\ Do(Op("curve", <<c, o>>), curve(This, c.x, c.y, o[1], o[2]))
Split == Do(Op("split", <<>>), split(This))
Join == Do(Op("join", <<>>), join(This))

SizeArgs == {[t |-> "undefined", n |-> 0, s |-> ""],
             [t |-> "number", n |-> 2, s |-> ""],
             [t |-> "string", n |-> 0, s |-> "red"]}
ColorsFor(size) == IF size.t = "number" THEN Colors ELSE {""}

Stroke == \E size \in SizeArgs : \E color \in ColorsFor(size) :
        Do(Op("stroke", <<size, color>>), stroke(This, size, color))
Fill == \E color \in Colors, rule \in FillRules :
        /\ color = "" \/ rule = ""
        /\ Do(Op("fill", <<color, rule>>), fill(This, color, rule))
Clear == \E o \in {None, Some(2)} :
        Do(Op("clear", <<o>>), clear(This, o, o, None, None))
Image == \E src \in Images, o \in {None, Some(2)} :
        Do(Op("image", <<src, o>>), image(This, src, o, o))
Text(S, A, B) == \E str \in S, a \in A, b \in B :
        /\ Len(checkPathClose(This).pendingText) < MaxText
        /\ Do(Op("text", <<str, a, b>>), text(This, str, a, b))
Font(F) == \E f \in F : Do(Op("font", <<f>>), font(This, f))

\* The path machine: every method that emits path commands.  text() and
\* font() fill the text queue and style; on the path state text() acts as
\* image() does (lazy reset, then posDrawn = true).  Both are exercised,
\* interleaved with points, close and paints, by the text machine below.
Next ==
    \/ XY \/ X \/ Y \/ DXY \/ DX \/ DY \/ XYFn
    \/ Close \/ Split \/ Join
    \/ Rect \/ Square \/ Arc \/ Circle \/ Ellipse
    \/ ArcTo \/ Curve
    \/ Stroke \/ Fill \/ Clear \/ Image

Spec == Init /\ [][Next]_vars

\* The text machine: the methods that queue text, change the position or the
\* text style, paint, and reset the path, with the text inputs varied and the
\* position kept to two points
PlaceAt == \E p \in Corners :
        Do(Op("xy", <<Some(p.x), Some(p.y)>>), xy(This, Some(p.x), Some(p.y)))
StrokeAll == \E size \in {s \in SizeArgs : s.t = "undefined"} :
        Do(Op("stroke", <<size, "">>), stroke(This, size, ""))
FillAll == Do(Op("fill", <<"", "">>), fill(This, "", ""))

NextText ==
    \/ PlaceAt \/ Text(Strs, Aligns, Baselines) \/ Font(Fonts)
    \/ StrokeAll \/ FillAll \/ Clear \/ Close

SpecText == Init /\ [][NextText]_vars

\* The queue machine: every method that runs the lazy reset, flushes the
\* position or draws a shape, together with text(), so that the calls act
\* on a cursor whose text queue is not empty
Label == Text({"A"}, {""}, {""})

NextQueue ==
    \/ PlaceAt \/ XYFn \/ Label
    \/ Close \/ Split \/ Join
    \/ Rect \/ Square \/ Arc \/ Circle \/ Ellipse
    \/ ArcTo \/ Curve
    \/ Stroke \/ Fill \/ Clear \/ Image

SpecQueue == Init /\ [][NextQueue]_vars

---------------------------------------------------------------------------
(* Vocabulary of the properties                                            *)

\* property writes are not commands: the commands a call sent, in order
IsWrite(c) == c.op \in {"set", "assign"}
Calls(e) == SelectSeq(e, LAMBDA c : ~IsWrite(c))
CountOp(e, name) == Cardinality({i \in 1..Len(e) : e[i].op = name})
Has(e, c) == \E i \in 1..Len(e) : e[i] = c
FirstIs(e, c) == e # <<>> /\ e[1] = c

\* a call that adds the point (x, y): xy with both coordinates, or a variant
IsPointCall(c) == IsXYPoint(c) \/ c.op \in {"x", "y", "dxy", "dx", "dy"}
\* a call that runs _advancePath at least once
Flushes(c) ==
    \/ c.op \in {"xy", "x", "y", "dxy", "dx", "dy", "close", "split", "join",
                 "stroke", "fill"}
    \/ c.op = "xyFn" /\ c.args[1] # <<>>
PaintOps == {"stroke", "fill"}
ShapeOps == {"rect", "square", "arc", "circle", "ellipse"}
CurveOps == {"arcTo", "bezierCurveTo", "quadraticCurveTo"}
CurveCount(e) == Cardinality({i \in 1..Len(e) : e[i].op \in CurveOps})
PosCmd(name) == Cmd(name, <<pos.x, pos.y>>, <<>>)

---------------------------------------------------------------------------
(* C1: a fresh run xy(p1) .. xy(pn), close()                               *)

TraceClosed ==
    /\ trace.on
    /\ Len(trace.calls) >= 2
    /\ trace.calls[Len(trace.calls)].op = "close"
TracePoints ==
    [i \in 1..(Len(trace.calls) - 1) |->
        Point(trace.calls[i].args[1][1], trace.calls[i].args[2][1])]
TraceLines ==
    [i \in 1..(Len(TracePoints) - 1) |->
        LineTo(TracePoints[i + 1].x, TracePoints[i + 1].y)]
TraceFirst == TracePoints[1]
TraceLast == TracePoints[Len(TracePoints)]

\* C1 as claimed: on a new cursor, xy(p1) .. xy(pn) then close() emits
\* moveTo(p1), lineTo(p2) .. lineTo(pn), a lineTo back to p1 unless pn = p1,
\* and closePath.
C1_AsClaimed ==
    TraceClosed =>
        trace.out = <<MoveTo(TraceFirst.x, TraceFirst.y)>> \o TraceLines
                    \o (IF TraceLast = TraceFirst THEN <<>>
                        ELSE <<LineTo(TraceFirst.x, TraceFirst.y)>>)
                    \o <<ClosePath>>

\* C1 amended: the lineTo back to p1 is emitted in every case, also when the
\* last point equals the first (and when there is only one point).
C1_ClosingLineAlways ==
    TraceClosed =>
        trace.out = <<MoveTo(TraceFirst.x, TraceFirst.y)>> \o TraceLines
                    \o <<LineTo(TraceFirst.x, TraceFirst.y), ClosePath>>

C1_Witness ==
    /\ TraceClosed
    /\ Len(TracePoints) >= 3
    /\ TraceLast = TraceFirst
    /\ TracePoints[2] # TraceFirst

---------------------------------------------------------------------------
(* C2: the first point after a paint                                       *)

\* C2: right after stroke() or fill(), a point-adding call emits exactly one
\* beginPath, as its first command and with no move or line for the point
\* drawn before the paint; the new point is then flushed as a moveTo; and
\* while no paint is pending a point-adding call emits no beginPath.
C2_ResetOnceAfterPaint ==
    [][ /\ (call.op \in PaintOps /\ IsPointCall(call')) =>
              /\ FirstIs(emitted', BeginPath)
              /\ CountOp(emitted', "beginPath") = 1
              /\ CountOp(emitted', "moveTo") = 0
              /\ CountOp(emitted', "lineTo") = 0
              /\ ~pendingPathClose'
        /\ (prevOp \in PaintOps /\ IsPointCall(call) /\ Flushes(call')) =>
              /\ FirstIs(Calls(emitted'), PosCmd("moveTo"))
              /\ CountOp(emitted', "beginPath") = 0
        /\ (~pendingPathClose /\ (IsPointCall(call') \/ call'.op = "xyFn")) =>
              CountOp(emitted', "beginPath") = 0
        /\ (~pendingPathClose /\ pendingPathClose') => call'.op \in PaintOps
      ]_vars

C2_Witness ==
    /\ prevOp \in PaintOps
    /\ IsPointCall(call)
    /\ FirstIs(emitted, BeginPath)
    /\ pos # Point(0, 0)
    /\ ~posDrawn

---------------------------------------------------------------------------
(* C3: curve(x1, y1) then xy(x2, y2)                                       *)

IsQuad(c) == c # None /\ c[1].kind = "quad"
QuadTo(c, p) == Cmd("quadraticCurveTo", <<c[1].n[1], c[1].n[2], p.x, p.y>>, <<>>)
\* the last call was an xy(x, y) that drew a quadratic curve to pos
DrewQuadToPos ==
    /\ IsXYPoint(call)
    /\ emitted # <<>>
    /\ emitted[Len(emitted)].op = "quadraticCurveTo"
\* what a call emits first when it finds a point pending and no paint pending
PendingFlush ==
    IF posDrawn THEN <<>>
    ELSE IF posStart = None THEN <<PosCmd("moveTo")>> ELSE <<PosCmd("lineTo")>>

\* C3 as claimed: the xy call that consumes a quadratic curve emits exactly
\* that curve, and the flush of its point never emits a lineTo to that point.
C3_AsClaimed ==
    [][ /\ (IsQuad(drawCurve) /\ IsXYPoint(call')) =>
              /\ CountOp(emitted', "quadraticCurveTo") = 1
              /\ Has(emitted', QuadTo(drawCurve, pos'))
        /\ (DrewQuadToPos /\ Flushes(call')) =>
              ~FirstIs(Calls(emitted'), PosCmd("lineTo"))
      ]_vars

\* C3 amended: the xy call emits, after the flush of the point pending
\* before it, exactly one quadraticCurveTo with control (x1, y1) and
\* destination (x2, y2) and no move or line for (x2, y2); the point stays
\* uncommitted, and the next flush emits it as a lineTo to (x2, y2) when a
\* subpath is open and as a moveTo when none is.
C3_CurveThenPointFlushed ==
    [][ /\ (IsQuad(drawCurve) /\ IsXYPoint(call')) =>
              /\ emitted' = (IF pendingPathClose THEN <<BeginPath>> ELSE <<>>)
                            \o PendingFlush \o <<QuadTo(drawCurve, pos')>>
              /\ pos' = Point(call'.args[1][1], call'.args[2][1])
              /\ ~posDrawn'
              /\ drawCurve' = None
        /\ (DrewQuadToPos /\ Flushes(call')) =>
              FirstIs(Calls(emitted'),
                      IF posStart = None THEN PosCmd("moveTo")
                      ELSE PosCmd("lineTo"))
      ]_vars

C3_Witness ==
    /\ DrewQuadToPos
    /\ posStart # None
    /\ CountOp(emitted, "lineTo") = 1
    /\ ~posDrawn

---------------------------------------------------------------------------
(* C4: the lazy reset comes first                                          *)

MutatingOps ==
    {"xy", "x", "y", "dxy", "dx", "dy", "xyFn", "close", "split", "join"}
        \cup ShapeOps

\* C4 as claimed: with a paint pending, the first command a path-mutating
\* operation issues is beginPath.
C4_AsClaimed ==
    [][ (pendingPathClose /\ call'.op \in MutatingOps) =>
            FirstIs(Calls(emitted'), BeginPath) ]_vars

---------------------------------------------------------------------------
(* C5: split() disconnects                                                 *)

\* C5: a point added right after split() is not connected to the point
\* before it: the adding call emits no move and no line, and the flush of
\* the new point emits a moveTo to it.
C5_SplitDisconnects ==
    [][ /\ (call.op = "split" /\ IsPointCall(call')) =>
              /\ CountOp(emitted', "lineTo") = 0
              /\ CountOp(emitted', "moveTo") = 0
        /\ (prevOp = "split" /\ IsPointCall(call) /\ Flushes(call')) =>
              FirstIs(Calls(emitted'), PosCmd("moveTo"))
      ]_vars

C5_Witness ==
    /\ prevOp = "split"
    /\ IsPointCall(call)
    /\ ~posDrawn
    /\ posStart = None
    /\ pos # Point(0, 0)

---------------------------------------------------------------------------
(* C6: join() connects                                                     *)

\* C6: join() keeps the position; a point added right after join() makes the
\* adding call emit the position current at join() as a moveTo or lineTo,
\* and the flush of the new point emits a lineTo to it, also when the new
\* point equals that position.
C6_JoinConnects ==
    [][ /\ call'.op = "join" => pos' = pos
        /\ (call.op = "join" /\ IsPointCall(call')) =>
              \/ FirstIs(emitted', PosCmd("moveTo"))
              \/ FirstIs(emitted', PosCmd("lineTo"))
        /\ (prevOp = "join" /\ IsPointCall(call) /\ Flushes(call')) =>
              FirstIs(Calls(emitted'), PosCmd("lineTo"))
      ]_vars

C6_Witness ==
    /\ prevOp = "join"
    /\ IsXYPoint(call)
    /\ emitted = <<PosCmd("moveTo")>>
    /\ posStart = Some(pos)
    /\ ~posDrawn

---------------------------------------------------------------------------
(* C7, C8: the life of a deferred curve                                    *)

\* the command a deferred curve c stands for, once its end point p is known
ExpectedCurve(c, p) ==
    IF c[1].kind = "quad" THEN QuadTo(c, p)
    ELSE IF c[1].kind = "bezier"
         THEN Cmd("bezierCurveTo",
                  <<c[1].n[1], c[1].n[2], c[1].n[3], c[1].n[4], p.x, p.y>>, <<>>)
         ELSE Cmd("arcTo", <<c[1].n[1], c[1].n[2], p.x, p.y, c[1].n[3]>>, <<>>)
LastIs(e, c) == e # <<>> /\ e[Len(e)] = c
NumberOps == {"xy", "x", "y", "dxy", "dx", "dy"}

\* C7 as claimed: every point-adding call, a generator call included, that
\* finds a deferred curve pending emits it once, ending at the new position,
\* and clears it.
C7_AsClaimed ==
    [][ (/\ drawCurve # None
         /\ IsPointCall(call') \/ (call'.op = "xyFn" /\ call'.args[1] # <<>>)) =>
            /\ CurveCount(emitted') = 1
            /\ Has(emitted', ExpectedCurve(drawCurve, pos'))
            /\ drawCurve' = None ]_vars

\* C7 amended: xy called with numbers (also through x, y, dxy, dx, dy) emits
\* a pending deferred curve exactly once, as its last command and ending at
\* the new position, and clears it; xy called with a coordinate generator
\* emits no curve and leaves the deferred curve pending; and a curve command
\* is only ever emitted by a call that found the curve pending and cleared it.
C7_ConsumedByNumbersOnly ==
    [][ /\ (drawCurve # None /\ call'.op \in NumberOps) =>
              /\ CurveCount(emitted') = 1
              /\ LastIs(emitted', ExpectedCurve(drawCurve, pos'))
              /\ drawCurve' = None
        /\ call'.op = "xyFn" =>
              /\ CurveCount(emitted') = 0
              /\ drawCurve' = drawCurve
        /\ CurveCount(emitted') > 0 =>
              /\ drawCurve # None
              /\ CurveCount(emitted') = 1
              /\ drawCurve' = None
      ]_vars

C7_Witness ==
    /\ call.op = "dxy"
    /\ CurveCount(emitted) = 1
    /\ CountOp(emitted, "lineTo") = 1
    /\ drawCurve = None
    /\ ~posDrawn

\* C8 as claimed: after close(), split() or a shape primitive no deferred
\* curve is pending.
C8_AsClaimed ==
    [][ call'.op \in ({"close", "split"} \cup ShapeOps) => drawCurve' = None ]_vars

\* close() finds a subpath to close: a pending point, or an open subpath
\* that no pending paint resets
ClosesSubpath == ~posDrawn \/ (posStart # None /\ ~pendingPathClose)

\* C8 amended: split() and the shape primitives emit no curve and leave the
\* deferred curve as it was, so the next point added with numbers is drawn
\* as that curve; close() does the same when it finds no subpath to close,
\* and otherwise emits the curve, ending at the subpath start, and clears it.
C8_CarriedAcrossSplitAndShapes ==
    [][ /\ call'.op \in ({"split"} \cup ShapeOps) =>
              /\ drawCurve' = drawCurve
              /\ CurveCount(emitted') = 0
        /\ (call.op \in ({"split"} \cup ShapeOps) /\ drawCurve # None
               /\ IsPointCall(call')) =>
              LastIs(emitted', ExpectedCurve(drawCurve, pos'))
        /\ (call'.op = "close" /\ ~ClosesSubpath) =>
              /\ drawCurve' = drawCurve
              /\ CurveCount(emitted') = 0
        /\ (call'.op = "close" /\ ClosesSubpath) =>
              /\ drawCurve' = None
              /\ drawCurve # None => Has(emitted', ExpectedCurve(drawCurve, pos'))
      ]_vars

C8_Witness ==
    /\ prevOp = "split"
    /\ IsXYPoint(call)
    /\ emitted # <<>>
    /\ emitted[Len(emitted)].op = "arcTo"

---------------------------------------------------------------------------
(* C9: queued text                                                         *)

TextOps == {"assign", "strokeText", "fillText"}
TextPart(e) == SelectSeq(e, LAMBDA c : c.op \in TextOps)
\* the style is applied, then the string drawn, entry after entry
RECURSIVE Rendered(_, _)
Rendered(entries, op) ==
    IF entries = <<>> THEN <<>>
    ELSE <<Cmd("assign", <<>>, <<entries[1].style.font, entries[1].style.textAlign,
                                 entries[1].style.textBaseline>>),
           Cmd(op, <<entries[1].pos.x, entries[1].pos.y>>, <<entries[1].str>>)>>
         \o Rendered(Tail(entries), op)
IsPrefix(s, r) == Len(s) <= Len(r) /\ SubSeq(r, 1, Len(s)) = s
OrElse(a, b) == IF a # "" THEN a ELSE b

\* C9: text() queues its string last, with the position and the style (the
\* font set so far, the alignment and baseline of this call) of that moment;
\* until the next paint no call changes or removes a queued entry; and
\* stroke()/fill() render the whole queue in order, each entry with its own
\* queued position and style, drawing no other text.
C9_TextSnapshotsRendered ==
    [][ /\ call'.op = "text" =>
              pendingText' =
                  Append(IF pendingPathClose THEN <<>> ELSE pendingText,
                         [str |-> call'.args[1], pos |-> pos,
                          style |-> [font |-> textStyle.font,
                                     textAlign |-> OrElse(call'.args[2], "start"),
                                     textBaseline |->
                                         OrElse(call'.args[3], "alphabetic")]])
        /\ (~pendingPathClose /\ call'.op \notin PaintOps) =>
              /\ IsPrefix(pendingText, pendingText')
              /\ ~pendingPathClose'
        /\ call'.op \in PaintOps =>
              /\ TextPart(emitted') =
                    Rendered(pendingText,
                             IF call'.op = "stroke" THEN "strokeText" ELSE "fillText")
              /\ pendingText' = pendingText
      ]_vars

C9_Witness ==
    /\ call.op = "fill"
    /\ Len(pendingText) = 2
    /\ pendingText[1].str = "A" /\ pendingText[2].str = "B"
    /\ pendingText[1].pos # pendingText[2].pos
    /\ pendingText[2].pos # pos
    /\ pendingText[1].style.font # pendingText[2].style.font
    /\ pendingText[1].style.textAlign # textStyle.textAlign
    /\ Len(TextPart(emitted)) = 4

---------------------------------------------------------------------------
(* C10: circle                                                             *)

\* C10: circle(r) emits one arc, centred at the position it finds, of radius
\* r from angle 0 to Tau, keeps the position and leaves no subpath open; a
\* close() right after it emits closePath and nothing else.
C10_CircleIsClosed ==
    [][ /\ call'.op = "circle" =>
              /\ CountOp(emitted', "arc") = 1
              /\ LastIs(emitted', Cmd("arc", <<pos.x, pos.y, call'.args[1], 0, Tau>>,
                                      <<"false">>))
              /\ pos' = pos
              /\ posStart' = None
        /\ (call.op = "circle" /\ call'.op = "close") => emitted' = <<ClosePath>>
      ]_vars

C10_Witness ==
    /\ prevOp = "circle"
    /\ call.op = "close"
    /\ emitted = <<ClosePath>>
    /\ pos # Point(0, 0)

---------------------------------------------------------------------------
(* C11: close() twice                                                      *)

\* C11: a close() called right after a close() emits closePath and nothing
\* else (no moveTo, no lineTo) and leaves pos, posDrawn and posStart as the
\* first close() left them: posDrawn true and no subpath open.
C11_SecondCloseOnlyClosesPath ==
    [][ /\ call'.op = "close" => (posDrawn' /\ posStart' = None)
        /\ (call.op = "close" /\ call'.op = "close") =>
              /\ emitted' = <<ClosePath>>
              /\ pos' = pos
              /\ posDrawn' = posDrawn
              /\ posStart' = posStart
      ]_vars

\* the second close() of xy(..), xy(..), close(), close()
C11_Witness ==
    /\ prevOp = "close"
    /\ call.op = "close"
    /\ emitted = <<ClosePath>>
    /\ pos # Point(0, 0)
    /\ posDrawn
    /\ posStart = None

---------------------------------------------------------------------------
(* C12: when the text queue is emptied                                     *)

\* the call that produced e ran the reset of a pending paint
DidReset(e) == Has(e, BeginPath)
PaintText(name) == IF name = "stroke" THEN "strokeText" ELSE "fillText"

\* C12: a call empties the text queue exactly when it resets a pending
\* paint (clears pendingPathClose and emits beginPath): the entries queued
\* before are then all gone.  Every other call, stroke() and fill()
\* included, keeps the queued entries in order, so each of several paints
\* with no reset in between renders the whole queue.
C12_QueueClearedOnlyByReset ==
    [][ /\ DidReset(emitted') <=> (pendingPathClose /\ ~pendingPathClose')
        /\ DidReset(emitted') =>
              pendingText' = IF call'.op = "text"
                             THEN <<pendingText'[Len(pendingText')]>>
                             ELSE <<>>
        /\ ~DidReset(emitted') =>
              /\ IsPrefix(pendingText, pendingText')
              /\ call'.op # "text" => pendingText' = pendingText
        /\ call'.op \in PaintOps =>
              /\ ~DidReset(emitted')
              /\ pendingText' = pendingText
              /\ TextPart(emitted') = Rendered(pendingText, PaintText(call'.op))
      ]_vars

\* the second of two paints in a row, rendering a queue of two entries
C12_Witness ==
    /\ prevOp \in PaintOps
    /\ call.op \in PaintOps
    /\ call.op # prevOp
    /\ Len(pendingText) = 2
    /\ TextPart(emitted) = Rendered(pendingText, PaintText(call.op))

---------------------------------------------------------------------------
(* C13: the life of posStart                                               *)

\* the calls whose flush can leave a subpath open
FlushOps == NumberOps \cup {"xyFn", "join", "stroke", "fill"}
\* the calls that run the lazy reset and then touch neither path nor start
AnchoredOps == {"rect", "square", "arc", "ellipse", "text"}
\* the subpath start after the commands e of a flushing call: a beginPath
\* leaves none open, the first moveTo after that opens one at its point
RECURSIVE StartAfter(_, _)
StartAfter(start, e) ==
    IF e = <<>> THEN start
    ELSE StartAfter(IF e[1] = BeginPath THEN None
                    ELSE IF e[1].op = "moveTo" /\ start = None
                         THEN Some(Point(e[1].n[1], e[1].n[2]))
                         ELSE start,
                    Tail(e))

\* C13: posStart is none after every close(), split() and circle() and
\* after the lazy reset; it becomes set only by the flush of a pending point
\* that finds it none, which emits a moveTo to that point and makes the
\* point the start; a flush that emits a lineTo leaves it as it is, and so
\* do arcTo and curve, rect, square, arc, ellipse and text (after the reset,
\* if a paint is pending), and stroke and fill (after their flush).
C13_StartSetByFirstFlush ==
    [][ /\ call'.op \in {"close", "split", "circle"} => posStart' = None
        /\ (DidReset(emitted') /\ CountOp(emitted', "moveTo") = 0) =>
              posStart' = None
        /\ call'.op \in FlushOps => posStart' = StartAfter(posStart, emitted')
        /\ (Flushes(call') /\ call'.op \in FlushOps /\ ~posDrawn
               /\ posStart = None) =>
              /\ FirstIs(Calls(emitted'), PosCmd("moveTo"))
              /\ posStart' = Some(pos)
        /\ posStart' \notin {None, posStart} =>
              /\ call'.op \in FlushOps
              /\ Has(emitted', MoveTo(posStart'[1].x, posStart'[1].y))
        /\ (CountOp(emitted', "moveTo") = 0 /\ ~DidReset(emitted')
               /\ call'.op \notin {"close", "split", "circle"}) =>
              posStart' = posStart
        /\ call'.op \in AnchoredOps =>
              posStart' = IF pendingPathClose THEN None ELSE posStart
        /\ call'.op \in {"arcTo", "curve"} => posStart' = posStart
        /\ (call'.op \in PaintOps /\ posDrawn) => posStart' = posStart
      ]_vars

\* a generator call after close(): its second point flushes the first as a
\* moveTo, which becomes the subpath start, with text queued meanwhile
C13_Witness ==
    /\ prevOp = "close"
    /\ call.op = "xyFn"
    /\ Len(call.args[1]) = 2
    /\ emitted = <<MoveTo(1, 1)>>
    /\ posStart = Some(Point(1, 1))
    /\ ~posDrawn
    /\ pendingText # <<>>

---------------------------------------------------------------------------
(* C14: emission is one call behind                                        *)

\* the moves and lines among the commands e
MovesLines(e) == SelectSeq(e, LAMBDA c : c.op \in {"moveTo", "lineTo"})

\* C14: xy(x, y) records its point and emits no move or line for it, only
\* the one for the point pending before (nothing at all as the first call on
\* a new cursor); the next flushing call emits the recorded point first, as
\* a moveTo when no subpath is open and as a lineTo otherwise; a call that
\* flushes without recording a point leaves nothing pending, and a flush
\* that finds nothing pending emits no move or line, so one recording is
\* emitted at most once.
C14_EmittedByNextFlush ==
    [][ /\ IsXYPoint(call') =>
              /\ MovesLines(emitted') = PendingFlush
              /\ pos' = Point(call'.args[1][1], call'.args[2][1])
              /\ ~posDrawn'
        /\ (call.op = "new" /\ IsXYPoint(call')) => emitted' = <<>>
        /\ (IsXYPoint(call) /\ Flushes(call')) =>
              FirstIs(Calls(emitted'),
                      IF posStart = None THEN PosCmd("moveTo")
                      ELSE PosCmd("lineTo"))
        /\ call'.op \in (NumberOps \cup {"split", "stroke", "fill"}) =>
              MovesLines(emitted') = PendingFlush
        /\ call'.op \in {"close", "split", "stroke", "fill"} => posDrawn'
        /\ (posDrawn /\ call'.op \in {"close", "join"} /\ posStart = None) =>
              MovesLines(emitted') = <<>>
      ]_vars

\* a new cursor after xy(p1), xy(p2), xy(p3): the first call emitted
\* nothing, the second moved to p1, the third drew the line to p2
C14_Witness ==
    /\ trace.on
    /\ Len(trace.calls) = 3
    /\ IsXYPoint(call)
    /\ emitted = <<LineTo(1, 0)>>
    /\ trace.out = <<MoveTo(0, 1), LineTo(1, 0)>>
    /\ pos = Point(1, 1)
    /\ ~posDrawn

---------------------------------------------------------------------------
(* C15: what a paint emits                                                 *)

\* one text command per queued entry, in queue order
TextDraws(entries, op) ==
    [i \in 1..Len(entries) |->
        Cmd(op, <<entries[i].pos.x, entries[i].pos.y>>, <<entries[i].str>>)]
PaintCmd(c) ==
    IF c.op = "stroke" THEN Cmd("stroke", <<>>, <<>>)
    ELSE Cmd("fill", <<>>, <<c.args[2]>>)

\* C15: the commands of stroke() and fill() are, in this order, the moveTo
\* or lineTo of the pending point if there is one, one strokeText/fillText
\* per queued entry, and the stroke/fill command; there is no beginPath
\* among them, and the call returns with posDrawn and pendingPathClose true.
C15_PaintFlushesTextsPaints ==
    [][ call'.op \in PaintOps =>
            /\ Calls(emitted') = PendingFlush
                                 \o TextDraws(pendingText, PaintText(call'.op))
                                 \o <<PaintCmd(call')>>
            /\ ~DidReset(emitted')
            /\ posDrawn'
            /\ pendingPathClose'
      ]_vars

\* a paint that drew a line to the pending point, two texts, and the path
C15_Witness ==
    /\ call.op \in PaintOps
    /\ Len(pendingText) = 2
    /\ Len(Calls(emitted)) = 4
    /\ Calls(emitted)[1] = PosCmd("lineTo")
    /\ Calls(emitted)[2].op = PaintText(call.op)
    /\ emitted[1].op = "set"

---------------------------------------------------------------------------
(* C16: rect, square and arc                                               *)

\* the corner of a w by h rectangle anchored at p
Corner(p, w, h, centered) ==
    IF centered THEN Point(p.x - w \div 2, p.y - h \div 2) ELSE p
\* the command of the shape call c on a cursor at p
ShapeAt(c, p) ==
    CASE c.op = "rect" ->
            LET k == Corner(p, c.args[1], c.args[2], c.args[3])
            IN  Cmd("rect", <<k.x, k.y, c.args[1], c.args[2]>>, <<>>)
      [] c.op = "square" ->
            LET k == Corner(p, c.args[1], c.args[1], c.args[2])
            IN  Cmd("rect", <<k.x, k.y, c.args[1], c.args[1]>>, <<>>)
      [] c.op = "arc" ->
            Cmd("arc", <<p.x, p.y, c.args[1], c.args[2], c.args[3]>>,
                <<BoolStr(c.args[4])>>)
PlainShapes == {"rect", "square", "arc"}

\* C16: rect, square and arc emit their shape command anchored at pos,
\* after a beginPath if a paint is pending, and nothing else; they set
\* posDrawn and leave pos, drawCurve and (the reset apart) posStart as they
\* were.  A point recorded by xy(x, y) and still pending at the shape is
\* dropped: the flush of the next call emits no move or line for it.
C16_ShapeDropsPendingPoint ==
    [][ /\ call'.op \in PlainShapes =>
              /\ emitted' = (IF pendingPathClose THEN <<BeginPath>> ELSE <<>>)
                            \o <<ShapeAt(call', pos)>>
              /\ posDrawn'
              /\ pos' = pos
              /\ drawCurve' = drawCurve
              /\ posStart' = IF pendingPathClose THEN None ELSE posStart
        /\ (call.op \in PlainShapes
               /\ call'.op \in (NumberOps \cup {"split", "join", "stroke", "fill"})) =>
              MovesLines(emitted') = <<>>
        /\ (call.op \in PlainShapes /\ call'.op = "close") =>
              MovesLines(emitted') =
                  IF posStart = None THEN <<>>
                  ELSE <<LineTo(posStart[1].x, posStart[1].y)>>
      ]_vars

\* xy(x, y) then a shape: only the shape command, with a subpath open and
\* the recorded point no longer pending
C16_Witness ==
    /\ prevOp = "point"
    /\ call.op \in PlainShapes
    /\ emitted = <<ShapeAt(call, pos)>>
    /\ posDrawn
    /\ posStart # None
    /\ posStart # Some(pos)

---------------------------------------------------------------------------
(* C17: no point is pending while a paint is                               *)

\* C17: in every reachable state pendingPathClose implies posDrawn; hence
\* the call that starts the path after a paint emits no move or line for a
\* point recorded before the paint (a generator call only for its own
\* points, all but the last).
C17_NoPendingPointAcrossPaint ==
    /\ [](pendingPathClose => posDrawn)
    /\ [][ /\ (pendingPathClose /\ Flushes(call') /\ call'.op # "xyFn") =>
                 MovesLines(emitted') = <<>>
           /\ (pendingPathClose /\ call'.op = "xyFn" /\ call'.args[1] # <<>>) =>
                 /\ FirstIs(emitted', BeginPath)
                 /\ MovesLines(emitted') =
                       [i \in 1..(Len(call'.args[1]) - 1) |->
                           IF i = 1
                           THEN MoveTo(call'.args[1][i].x, call'.args[1][i].y)
                           ELSE LineTo(call'.args[1][i].x, call'.args[1][i].y)]
         ]_vars

\* xy(x, y) then a paint: the paint has drawn the point, none is pending
C17_Witness ==
    /\ prevOp = "point"
    /\ call.op \in PaintOps
    /\ pendingPathClose
    /\ posDrawn
    /\ Has(emitted, PosCmd("lineTo"))

---------------------------------------------------------------------------
(* C18: lines are drawn in open subpaths only                              *)

\* the calls that end the subpath
EndsSubpath == {"close", "split", "circle"}
\* the index of the last beginPath among the commands e, 0 if there is none
LastBegin(e) ==
    IF DidReset(e)
    THEN CHOOSE i \in 1..Len(e) :
            /\ e[i] = BeginPath
            /\ \A j \in (i + 1)..Len(e) : e[j] # BeginPath
    ELSE 0
\* a moveTo to p is among the commands e, after the last beginPath
MovedTo(e, p) == \E i \in (LastBegin(e) + 1)..Len(e) : e[i] = MoveTo(p.x, p.y)

\* C18: every lineTo is emitted with a subpath open (one open at the call
\* and not reset before the line, or opened by a moveTo earlier in the
\* call).  A subpath is open after a call only if it was open before and
\* the call neither reset the path nor ended the subpath, or if the call
\* emitted a moveTo to posStart after its last beginPath; as none is open on
\* a new cursor, an open subpath always has its moveTo after the most
\* recent beginPath, close(), split() or circle().  So the first move or
\* line of a new path, and of the subpath after a split, close or circle,
\* is never a lineTo.
C18_LinesOnlyInOpenSubpath ==
    [][ /\ \A i \in 1..Len(emitted') :
              emitted'[i].op = "lineTo" =>
                  StartAfter(posStart, SubSeq(emitted', 1, i - 1)) # None
        /\ posStart' # None =>
              /\ call'.op \notin EndsSubpath
              /\ \/ posStart' = posStart /\ ~DidReset(emitted')
                 \/ MovedTo(emitted', posStart'[1])
        /\ (posStart = None \/ pendingPathClose \/ call.op \in EndsSubpath) =>
              \/ MovesLines(emitted') = <<>>
              \/ MovesLines(emitted')[1].op = "moveTo"
      ]_vars

\* a line drawn by xy(x, y) in a subpath opened after the first one ended
C18_Witness ==
    /\ prevOp = "point"
    /\ IsXYPoint(call)
    /\ emitted = <<LineTo(1, 0)>>
    /\ posStart = Some(Point(1, 1))
    /\ ~trace.on

---------------------------------------------------------------------------
(* C19: join() and close() consume the deferred curve                      *)

\* C19 as claimed: join() emits a pending curve ending at the position and
\* clears it; close() called with posStart set emits it ending at posStart
\* and clears it; close() called with posStart none leaves it pending.
C19_AsClaimed ==
    [][ /\ (call'.op = "join" /\ drawCurve # None) =>
              /\ Has(emitted', ExpectedCurve(drawCurve, pos))
              /\ drawCurve' = None
        /\ (call'.op = "close" /\ drawCurve # None /\ posStart # None) =>
              /\ Has(emitted', ExpectedCurve(drawCurve, posStart[1]))
              /\ drawCurve' = None
        /\ (call'.op = "close" /\ posStart = None) => drawCurve' = drawCurve
      ]_vars

\* the subpath start close() finds after its reset and flush: posStart, or
\* the pending point that the flush has just made the start
CloseTarget == IF posStart # None /\ ~pendingPathClose THEN posStart[1] ELSE pos

\* C19 amended: join() emits a pending curve, after its reset and flush,
\* ending at the position, and clears it.  close() decides after its reset
\* and flush: if a subpath is then open (posStart was set and no paint was
\* pending, or a point was pending and the flush opened one at it) the
\* curve is emitted ending at that subpath's start, before the line back to
\* it, and cleared; if none is open, the curve is left pending.
C19_ConsumedByJoinAndClose ==
    [][ /\ (call'.op = "join" /\ drawCurve # None) =>
              /\ emitted' = (IF pendingPathClose THEN <<BeginPath>> ELSE <<>>)
                            \o PendingFlush \o <<ExpectedCurve(drawCurve, pos)>>
              /\ pos' = pos
              /\ drawCurve' = None
        /\ (call'.op = "close" /\ drawCurve # None /\ ClosesSubpath) =>
              /\ emitted' = PendingFlush
                            \o <<ExpectedCurve(drawCurve, CloseTarget),
                                 LineTo(CloseTarget.x, CloseTarget.y), ClosePath>>
              /\ drawCurve' = None
        /\ (call'.op = "close" /\ ~ClosesSubpath) =>
              /\ drawCurve' = drawCurve
              /\ CurveCount(emitted') = 0
      ]_vars

\* close() called with a point and a curve pending and posStart none: the
\* flush opened the subpath at the point, and the curve was drawn to it
C19_Witness ==
    /\ call.op = "close"
    /\ Len(emitted) = 4
    /\ emitted[1] = PosCmd("moveTo")
    /\ emitted[2].op \in CurveOps
    /\ emitted[3] = PosCmd("lineTo")
    /\ drawCurve = None
    /\ pos # Point(0, 0)

---------------------------------------------------------------------------
(* C20: clear() and image() run the lazy reset                             *)

CanvasOps == {"clear", "image"}
OwnCmd(name) == IF name = "clear" THEN "clearRect" ELSE "drawImage"

\* C20: clear() and image() called with a paint pending emit beginPath and
\* then their own command, empty the text queue and clear posStart, so a
\* paint that follows paint, clear()/image() renders no text; called with no
\* paint pending they emit their own command only and leave pendingText and
\* posStart as they were.
C20_CanvasOpsReset ==
    [][ /\ (call'.op \in CanvasOps /\ pendingPathClose) =>
              /\ Len(emitted') = 2
              /\ emitted'[1] = BeginPath
              /\ emitted'[2].op = OwnCmd(call'.op)
              /\ pendingText' = <<>>
              /\ posStart' = None
              /\ ~pendingPathClose'
        /\ (call'.op \in CanvasOps /\ ~pendingPathClose) =>
              /\ Len(emitted') = 1
              /\ emitted'[1].op = OwnCmd(call'.op)
              /\ pendingText' = pendingText
              /\ posStart' = posStart
        /\ (prevOp \in PaintOps /\ call.op \in CanvasOps /\ call'.op \in PaintOps) =>
              TextPart(emitted') = <<>>
      ]_vars

\* clear() right after a paint, on a cursor that text() has been called on
C20_Witness ==
    /\ prevOp \in PaintOps
    /\ call.op = "clear"
    /\ emitted[1] = BeginPath
    /\ emitted[2].op = "clearRect"
    /\ textStyle.textAlign # "unset"
    /\ pendingText = <<>>
    /\ posStart = None
    /\ pos # Point(0, 0)

=============================================================================
